---- MODULE Spec2Model ----
(***************************************************************************)
(* go-dadjokes-api: the per-address rate limiter registry (visitors map,   *)
(* mu, getVisitor, cleanupVisitors, rateLimitMiddleware) and the two       *)
(* handlers behind the router (getJoke, saveJoke) of dadjokes.go.          *)
(*                                                                         *)
(* Time is counted in ticks; TicksPerSecond ticks make one second.  A      *)
(* bucket's tokens are counted in the same grain: TicksPerSecond units     *)
(* make one token, so that at 1 token/second one tick refills one unit.    *)
(***************************************************************************)
EXTENDS Integers, Sequences, FiniteSets, TLC

\* ---------------------------------------------------------------- bounds
TicksPerSecond == 2
\* the clock is read at each of the first SubTicks ticks
SubTicks == 3
\* goroutines serving requests at the same time
NReq == 2
\* requests accepted between two readings of the clock
MaxBurst == 4
\* the same, where two addresses send
PairBurst == 2
\* rows the store takes before every insert fails
MaxJokes == 2

\* ------------------------------------------------------ program constants
\* rate.NewLimiter(1, 3): 1 token per second, burst 3
Rate == 1
Burst == 3
\* time.Sleep(time.Minute)
SweepMinutes == 1
\* time.Since(v.lastSeen) > 3*time.Minute
StaleMinutes == 3
\* len(joke.Author) > 255, len(joke.Text) > 2000
MaxAuthorLen == 255
MaxTextLen == 2000

Second == TicksPerSecond
Minute == 60 * Second
TokenUnit == TicksPerSecond

\* The readings time.Now() returns in a run: the first ticks, the first time
\* the sleep of cleanupVisitors is over, and the staleness threshold after
\* time 0, to the tick and one tick past it.
Instants ==
    (0..SubTicks) \cup {SweepMinutes * Minute}
                 \cup {StaleMinutes * Minute, StaleMinutes * Minute + 1}
\* the readings around the eviction limit only
CoarseInstants ==
    {0, StaleMinutes * Minute, StaleMinutes * Minute + 1}

Reqs == 1..NReq
\* the cleanupVisitors goroutine, as a holder of mu
SweepHolder == NReq + 1

\* r.RemoteAddr values: one host, two ports
Addrs == {"192.0.2.1:1234", "192.0.2.1:5678"}
OneAddr == {"192.0.2.1:1234"}

\* a string of n bytes, all equal to ch
Str(ch, n) == [ch |-> ch, n |-> n]
EmptyStr == Str("", 0)
StrLen(s) == s.n

\* the zero time.Time, before every reading of the clock
ZeroTime == 0 - 1

\* no Joke in a response body
NoJoke == [id |-> 0 - 1, date |-> ZeroTime, author |-> EmptyStr, text |-> EmptyStr]
\* the Joke a request body decodes to; Id and Date keep Go's zero values
\* when the body does not set them
DecodedJoke(author, text) ==
    [id |-> 0, date |-> ZeroTime, author |-> author, text |-> text]
\* a body json.Decode fails on
BadJson == [id |-> 0 - 2, date |-> ZeroTime, author |-> EmptyStr, text |-> EmptyStr]

Methods == {"GET", "POST"}
Paths == {"/random", "/write"}
StoreOutcomes == {"ok", "error"}
\* the same with failures of different kinds
StoreFailures == {"ok", "connection refused", "deadlock detected"}

VARIABLES
    now,        \* the clock
    visitors,   \* map[string]*visitor: key -> [limiter, lastSeen]
    limiters,   \* the rate.Limiter objects allocated so far, by address (index)
    mu,         \* sync.Mutex: 0 free, or its holder (a request, SweepHolder)
    req,        \* the goroutine of each request slot
    sweep,      \* the cleanupVisitors goroutine
    jokes,      \* the rows of table jokes
    hist,       \* history, per address: its Allow calls at the current reading of
                \* the clock, after the last one before it when that was a rejection.
                \* Of a call: lim the limiter, t the time, ok the result, forwarded
                \* and status what the middleware did with it, left the tokens the
                \* bucket held after it; burst: getVisitor ran at t too; fresh: it
                \* found no visitor or a full bucket; registered: lim was the
                \* limiter of the visitors map; refilled: lim had been used and
                \* then left alone for longer than a bucket takes to fill
                \* unswept: the result the same call had on shadow
    arrived,    \* history: requests accepted at the current reading of the clock
    shadow      \* history, per address: the bucket a map that is never swept
                \* would hold for it, all Allow calls of the address made on it

vars == <<now, visitors, limiters, mu, req, sweep, jokes, hist, arrived, shadow>>

IdleReq ==
    [pc |-> "idle", method |-> "", path |-> "", addr |-> "", body |-> NoJoke,
     lim |-> 0, burst |-> FALSE, fresh |-> FALSE, tokenTaken |-> FALSE,
     ranSave |-> FALSE, storeCalls |-> 0, storeErr |-> "",
     status |-> 0, msg |-> "", joke |-> NoJoke]

Init ==
    /\ now = 0
    /\ visitors = <<>>
    /\ limiters = <<>>
    /\ mu = 0
    /\ req = [r \in Reqs |-> IdleReq]
    /\ sweep = [pc |-> "sleep", sleptAt |-> 0, todo |-> {}, start |-> 0, before |-> <<>>]
    /\ jokes = <<>>
    /\ hist = [a \in Addrs |-> <<>>]
    /\ arrived = 0
    /\ shadow = [a \in Addrs |-> [tokens |-> Burst * TokenUnit, last |-> ZeroTime]]

\* ------------------------------------------------------------------ time
\* history kept over a move of the clock: the last Allow call of an address
\* when it was a rejection
Carry(h) ==
    IF h # <<>> /\ ~h[Len(h)].ok
    THEN <<[h[Len(h)] EXCEPT !.burst = FALSE, !.fresh = FALSE, !.registered = FALSE,
                             !.refilled = FALSE]>>
    ELSE <<>>

\* The clock moves to any later reading among those of I.  A critical
\* section of mu is shorter than a tick: the clock does not move inside one.
Tick(I) ==
    /\ mu = 0
    /\ \E t \in I : t > now /\ now' = t
    /\ hist' = [a \in Addrs |-> Carry(hist[a])]
    /\ arrived' = 0
    /\ req' = [r \in Reqs |-> [req[r] EXCEPT !.burst = FALSE, !.fresh = FALSE]]
    /\ UNCHANGED <<visitors, limiters, mu, sweep, jokes, shadow>>


\* ---------------------------------------------------------------- router
\* main: /random answers GET with getJoke; /write answers POST with
\* (mutation of Dispatch: the middleware wraps both routes)
DispatchAllLimited(method, path) ==
    IF path = "/random" /\ method = "GET" THEN "rateLimit"
    ELSE IF path = "/write" /\ method = "POST" THEN "rateLimit"
    ELSE "methodNotAllowed"

\* rateLimitMiddleware(saveJoke); the router answers any other method itself
Dispatch(method, path) ==
    IF path = "/random" /\ method = "GET" THEN "getJoke"
    ELSE IF path = "/write" /\ method = "POST" THEN "rateLimit"
    ELSE "methodNotAllowed"

\* http.ResponseWriter.WriteHeader: the first status written stands
WriteHeader(status, code) == IF status = 0 THEN code ELSE status

\* A request arrives on the first free goroutine (one that has answered its
\* last request) and the router hands it to its handler.
Arrive(r, methods, paths, addrs, bodies, burst) ==
    /\ req[r].pc \in {"idle", "done"}
    /\ \A q \in Reqs : q < r => req[q].pc \notin {"idle", "done"}
    /\ arrived < burst
    /\ \E method \in methods, path \in paths, addr \in addrs, body \in bodies :
         LET h == Dispatch(method, path)
             base == [IdleReq EXCEPT !.method = method, !.path = path, !.addr = addr]
         IN  req' = [req EXCEPT ![r] =
                 CASE h = "getJoke"   -> [base EXCEPT !.pc = "getJoke"]
                   [] h = "rateLimit" -> [base EXCEPT !.pc = "getVisitor", !.body = body]
                   [] OTHER           -> [base EXCEPT !.pc = "done", !.status = 405]]
    /\ arrived' = arrived + 1
    /\ UNCHANGED <<now, visitors, limiters, mu, sweep, jokes, hist, shadow>>

\* ---------------------------------------------------------- rate.Limiter
\* rate.NewLimiter(1, 3): a full bucket.  owner and evicted are history: the
\* key the limiter was made for, and whether its visitor has been deleted.
NewLimiter(owner) ==
    [tokens |-> Burst * TokenUnit, last |-> ZeroTime, owner |-> owner, evicted |-> FALSE]

\* (mutation of AdvanceTokens: the refill is not capped)
AdvanceUncapped(lim, t) ==
    LET last == IF t < lim.last THEN t ELSE lim.last
    IN  lim.tokens + (t - last) * Rate

\* Limiter.advance: the tokens at time t, the refill since lim.last added
\* and capped at the burst
AdvanceTokens(lim, t) ==
    LET last    == IF t < lim.last THEN t ELSE lim.last
        elapsed == t - last
        tokens  == lim.tokens + elapsed * Rate
    IN  IF tokens > Burst * TokenUnit THEN Burst * TokenUnit ELSE tokens

\* (mutation of ReserveOk: the last token is never given out)
ReserveOkStrict(lim, t, n) == n <= Burst /\ AdvanceTokens(lim, t) - n * TokenUnit > 0

\* (mutation of ReserveN: a refused call keeps its reservation, as a debt)
ReserveNDebt(lim, t, n) ==
    [lim EXCEPT !.tokens = AdvanceTokens(lim, t) - n * TokenUnit, !.last = t]

\* Limiter.reserveN(t, n, 0): n tokens are taken when the bucket holds
\* them at t; otherwise the limiter is left as it was
ReserveOk(lim, t, n) == n <= Burst /\ AdvanceTokens(lim, t) - n * TokenUnit >= 0

\* (mutation of ReserveN: a refused call restarts the refill)
ReserveNRestart(lim, t, n) ==
    IF ReserveOk(lim, t, n)
    THEN [lim EXCEPT !.tokens = AdvanceTokens(lim, t) - n * TokenUnit, !.last = t]
    ELSE [lim EXCEPT !.last = t]

ReserveN(lim, t, n) ==
    IF ReserveOk(lim, t, n)
    THEN [lim EXCEPT !.tokens = AdvanceTokens(lim, t) - n * TokenUnit, !.last = t]
    ELSE lim

\* ------------------------------------------------------------ getVisitor
\* (mutation of Key: the port is cut off the address)
KeyHostOnly(addr) == "192.0.2.1"

\* ip := r.RemoteAddr
Key(addr) == addr

\* (mutation of MuFreeFor: getVisitor does not wait for mu)
MuNoWait(r) == TRUE

\* mu.Lock() in getVisitor
MuFreeFor(r) == mu = 0

\* mu.Lock(); v, exists := visitors[ip]
GvLock(r) ==
    /\ req[r].pc = "getVisitor"
    /\ MuFreeFor(r)
    /\ mu' = r
    /\ req' = [req EXCEPT ![r].pc =
                  IF Key(req[r].addr) \in DOMAIN visitors THEN "touch" ELSE "create"]
    /\ UNCHANGED <<now, visitors, limiters, sweep, jokes, hist, arrived, shadow>>

MapPut(m, k, v) == [x \in DOMAIN m \cup {k} |-> IF x = k THEN v ELSE m[x]]
MapDelete(m, k) == [x \in DOMAIN m \ {k} |-> m[x]]

\* !exists: a new limiter and a new visitor with lastSeen = now; the
\* deferred mu.Unlock() runs on return
GvCreate(r) ==
    /\ req[r].pc = "create"
    /\ LET ip == Key(req[r].addr)
           id == Len(limiters) + 1
       IN  /\ limiters' = Append(limiters, NewLimiter(ip))
           /\ visitors' = MapPut(visitors, ip, [limiter |-> id, lastSeen |-> now])
           /\ req' = [req EXCEPT ![r].pc = "allow", ![r].lim = id, ![r].burst = TRUE,
                                 ![r].fresh = TRUE]
    /\ mu' = 0
    /\ UNCHANGED <<now, sweep, jokes, hist, arrived, shadow>>

\* (mutation of GvTouch: lastSeen is left as it was)
GvTouchNoStamp(r) ==
    /\ req[r].pc = "touch"
    /\ LET ip == Key(req[r].addr)
           id == visitors[ip].limiter
       IN  /\ visitors' = visitors
           /\ req' = [req EXCEPT ![r].pc = "allow", ![r].lim = id, ![r].burst = TRUE,
                                 ![r].fresh =
                                     (AdvanceTokens(limiters[id], now) = Burst * TokenUnit)]
    /\ mu' = 0
    /\ UNCHANGED <<now, limiters, sweep, jokes, hist, arrived, shadow>>

\* (mutation of GvTouch: the unlock is missing)
GvTouchNoUnlock(r) ==
    /\ req[r].pc = "touch"
    /\ LET ip == Key(req[r].addr)
           id == visitors[ip].limiter
       IN  /\ visitors' = [visitors EXCEPT ![ip].lastSeen = now]
           /\ req' = [req EXCEPT ![r].pc = "allow", ![r].lim = id, ![r].burst = TRUE,
                                 ![r].fresh =
                                     (AdvanceTokens(limiters[id], now) = Burst * TokenUnit)]
    /\ UNCHANGED <<now, limiters, mu, sweep, jokes, hist, arrived, shadow>>

\* exists: v.lastSeen = now; the deferred mu.Unlock() runs on return
GvTouch(r) ==
    /\ req[r].pc = "touch"
    /\ LET ip == Key(req[r].addr)
           id == visitors[ip].limiter
       IN  /\ visitors' = [visitors EXCEPT ![ip].lastSeen = now]
           /\ req' = [req EXCEPT ![r].pc = "allow", ![r].lim = id, ![r].burst = TRUE,
                                 ![r].fresh =
                                     (AdvanceTokens(limiters[id], now) = Burst * TokenUnit)]
    /\ mu' = 0
    /\ UNCHANGED <<now, limiters, sweep, jokes, hist, arrived, shadow>>

\* --------------------------------------------------- rateLimitMiddleware
\* (mutation of AfterAllow: the return after the 429 is missing)
AfterAllowNoReturn(ok) == "saveJoke"

\* if !limiter.Allow() { w.WriteHeader(429); return }; next.ServeHTTP(w, r)
AfterAllow(ok) == IF ok THEN "saveJoke" ELSE "done"

Allow(r) ==
    /\ req[r].pc = "allow"
    /\ LET id  == req[r].lim
           lim == limiters[id]
           ok  == ReserveOk(lim, now, 1)
           new == ReserveN(lim, now, 1)
       IN  /\ limiters' = [limiters EXCEPT ![id] = new]
           /\ req' = [req EXCEPT ![r].pc = AfterAllow(ok),
                                 ![r].lim = 0, ![r].burst = FALSE, ![r].fresh = FALSE,
                                 ![r].tokenTaken = ok,
                                 ![r].status = IF ok THEN @ ELSE WriteHeader(@, 429)]
           /\ hist' = [hist EXCEPT ![req[r].addr] =
                         Append(@, [lim |-> id, burst |-> req[r].burst, t |-> now,
                                    ok |-> ok, fresh |-> req[r].fresh,
                                    forwarded |-> (AfterAllow(ok) = "saveJoke"),
                                    status |-> req'[r].status,
                                    registered |->
                                        /\ Key(req[r].addr) \in DOMAIN visitors
                                        /\ visitors[Key(req[r].addr)].limiter = id,
                                    refilled |-> /\ lim.tokens < Burst * TokenUnit
                                                 /\ (now - lim.last) * Rate
                                                      > Burst * TokenUnit,
                                    left |-> AdvanceTokens(new, now),
                                    unswept |-> ReserveOk(shadow[req[r].addr], now, 1)])]
           /\ shadow' = [shadow EXCEPT ![req[r].addr] =
                           [tokens |-> ReserveN(@, now, 1).tokens,
                            last   |-> ReserveN(@, now, 1).last]]
    /\ UNCHANGED <<now, visitors, mu, sweep, jokes, arrived>>


\* -------------------------------------------------------------- saveJoke
GenericError == "An internal server error occurred."

\* err of db.Exec / Scan: the store's own text; a full table fails too
StoreError(outcome) == IF outcome = "ok" THEN "out of space" ELSE outcome

\* (mutation of ErrorBody: err.Error() goes into the response)
ErrorBodyExposed(err) == err

\* log.Printf(..., err); Encode(map[string]string{"message": ...}): err
\* goes to the log, the fixed text to the client
ErrorBody(err) == GenericError

\* (mutation of Validate: the text is looked at before the author, and the
\* limits are exclusive)
ValidateTextFirst(joke) ==
    IF StrLen(joke.text) = 0 THEN "Joke text cannot be empty."
    ELSE IF StrLen(joke.text) >= MaxTextLen
         THEN "Joke text exceeds maximum length of 2000 characters."
    ELSE IF StrLen(joke.author) = 0 THEN "Author cannot be empty."
    ELSE IF StrLen(joke.author) > MaxAuthorLen
         THEN "Author exceeds maximum length of 255 characters."
    ELSE ""

\* the input validation of saveJoke: the message of the first check that
\* fails, "" when none does
Validate(joke) ==
    IF StrLen(joke.author) = 0 THEN "Author cannot be empty."
    ELSE IF StrLen(joke.author) > MaxAuthorLen
         THEN "Author exceeds maximum length of 255 characters."
    ELSE IF StrLen(joke.text) = 0 THEN "Joke text cannot be empty."
    ELSE IF StrLen(joke.text) > MaxTextLen
         THEN "Joke text exceeds maximum length of 2000 characters."
    ELSE ""

\* INSERT INTO jokes (author, joke_text): the table assigns id (SERIAL)
\* and entry_date (CURRENT_TIMESTAMP)
InsertRow(rows, author, text, t) ==
    Append(rows, [id |-> Len(rows) + 1, date |-> t, author |-> author, text |-> text])

\* json.NewEncoder(response).Encode(joke) after a successful insert: the
\* Joke that was decoded from the request
CreatedBody(decoded, rows) == decoded

\* (mutation of SaveJoke: the row is inserted before the input is validated)
SaveJokeInsertFirst(r, outcomes) ==
    /\ req[r].pc = "saveJoke"
    /\ LET joke == req[r].body
           done == [req[r] EXCEPT !.pc = "done", !.ranSave = TRUE]
       IN  IF joke = BadJson
           THEN /\ req' = [req EXCEPT ![r] =
                              [done EXCEPT !.status = WriteHeader(@, 400),
                                           !.msg = "json decode error"]]
                /\ jokes' = jokes
           ELSE \E outcome \in outcomes :
                  IF outcome = "ok" /\ Len(jokes) < MaxJokes
                  THEN /\ jokes' = InsertRow(jokes, joke.author, joke.text, now)
                       /\ req' = [req EXCEPT ![r] =
                                     IF Validate(joke) # ""
                                     THEN [done EXCEPT !.status = WriteHeader(@, 400),
                                                       !.storeCalls = @ + 1,
                                                       !.msg = Validate(joke)]
                                     ELSE [done EXCEPT !.status = WriteHeader(@, 201),
                                                       !.storeCalls = @ + 1,
                                                       !.joke = CreatedBody(joke, jokes')]]
                  ELSE /\ jokes' = jokes
                       /\ req' = [req EXCEPT ![r] =
                                     [done EXCEPT !.status = WriteHeader(@, 500),
                                                  !.storeCalls = @ + 1,
                                                  !.msg = GenericError]]
    /\ UNCHANGED <<now, visitors, limiters, mu, sweep, hist, arrived, shadow>>

SaveJoke(r, outcomes) ==
    /\ req[r].pc = "saveJoke"
    /\ LET joke == req[r].body
           done == [req[r] EXCEPT !.pc = "done", !.ranSave = TRUE]
       IN  IF joke = BadJson
           THEN /\ req' = [req EXCEPT ![r] =
                              [done EXCEPT !.status = WriteHeader(@, 400),
                                           !.msg = "json decode error"]]
                /\ jokes' = jokes
           ELSE IF Validate(joke) # ""
           THEN /\ req' = [req EXCEPT ![r] =
                              [done EXCEPT !.status = WriteHeader(@, 400),
                                           !.msg = Validate(joke)]]
                /\ jokes' = jokes
           ELSE \E outcome \in outcomes :
                  IF outcome = "ok" /\ Len(jokes) < MaxJokes
                  THEN /\ jokes' = InsertRow(jokes, joke.author, joke.text, now)
                       /\ req' = [req EXCEPT ![r] =
                                     [done EXCEPT !.status = WriteHeader(@, 201),
                                                  !.storeCalls = @ + 1,
                                                  !.joke = CreatedBody(joke, jokes')]]
                  ELSE /\ jokes' = jokes
                       /\ req' = [req EXCEPT ![r] =
                                     [done EXCEPT !.status = WriteHeader(@, 500),
                                                  !.storeCalls = @ + 1,
                                                  !.storeErr = StoreError(outcome),
                                                  !.msg = ErrorBody(StoreError(outcome))]]
    /\ UNCHANGED <<now, visitors, limiters, mu, sweep, hist, arrived, shadow>>

\* --------------------------------------------------------------- getJoke
\* SELECT ... ORDER BY RANDOM() LIMIT 1: any row, sql.ErrNoRows from an
\* empty table, or a failure of the store
\* (mutation of ScanRow: the author is scanned from the first row)
ScanRowMixed(rows, i) == [rows[i] EXCEPT !.author = rows[1].author]

\* .Scan(&joke.Id, &joke.Date, &joke.Author, &joke.Text): the columns of
\* the one row the query returned
ScanRow(rows, i) == rows[i]

GetJoke(r, outcomes) ==
    /\ req[r].pc = "getJoke"
    /\ LET done == [req[r] EXCEPT !.pc = "done", !.storeCalls = @ + 1]
       IN  \E outcome \in outcomes :
             IF outcome # "ok"
             THEN req' = [req EXCEPT ![r] =
                             [done EXCEPT !.status = WriteHeader(@, 500),
                                          !.storeErr = StoreError(outcome),
                                          !.msg = ErrorBody(StoreError(outcome))]]
             ELSE IF Len(jokes) = 0
             THEN req' = [req EXCEPT ![r] =
                             [done EXCEPT !.status = WriteHeader(@, 404),
                                          !.msg = "No jokes found in the database."]]
             ELSE \E i \in 1..Len(jokes) :
                    req' = [req EXCEPT ![r] =
                               [done EXCEPT !.status = WriteHeader(@, 200),
                                            !.joke = ScanRow(jokes, i)]]
    /\ UNCHANGED <<now, visitors, limiters, mu, sweep, jokes, hist, arrived, shadow>>

\* ------------------------------------------------------- cleanupVisitors
\* (mutation of Stale: an entry seen exactly 3 minutes ago goes too)
StaleAtLimit(v, t) == t - v.lastSeen >= StaleMinutes * Minute

\* time.Since(v.lastSeen) > 3*time.Minute
Stale(v, t) == t - v.lastSeen > StaleMinutes * Minute

\* time.Sleep(time.Minute) has returned, and mu.Lock().  start and before
\* are history: when the pass began and the map it found.
SweepLock ==
    /\ sweep.pc = "sleep"
    /\ now - sweep.sleptAt >= SweepMinutes * Minute
    /\ mu = 0
    /\ mu' = SweepHolder
    /\ sweep' = [sweep EXCEPT !.pc = "range", !.todo = DOMAIN visitors,
                              !.start = now, !.before = visitors]
    /\ UNCHANGED <<now, visitors, limiters, req, jokes, hist, arrived, shadow>>

\* one iteration of: for ip, v := range visitors
SweepVisit ==
    /\ sweep.pc = "range"
    /\ \E ip \in sweep.todo :
         /\ IF Stale(visitors[ip], now)
            THEN /\ visitors' = MapDelete(visitors, ip)
                 /\ limiters' = [limiters EXCEPT ![visitors[ip].limiter].evicted = TRUE]
            ELSE UNCHANGED <<visitors, limiters>>
         /\ sweep' = [sweep EXCEPT !.todo = @ \ {ip}]
    /\ UNCHANGED <<now, mu, req, jokes, hist, arrived, shadow>>

\* mu.Unlock(), and the next time.Sleep begins
SweepUnlock ==
    /\ sweep.pc = "range"
    /\ sweep.todo = {}
    /\ mu' = 0
    /\ sweep' = [sweep EXCEPT !.pc = "sleep", !.sleptAt = now, !.start = 0, !.before = <<>>]
    /\ UNCHANGED <<now, visitors, limiters, req, jokes, hist, arrived, shadow>>

\* ---------------------------------------------------------------- system
\* a POST /write whose body fails validation: the store stays out of the
\* picture
RegistryBodies == { DecodedJoke(EmptyStr, Str("t", 10)) }

\* what the registry does whoever sends
Registry ==
    \/ \E r \in Reqs : GvLock(r)
    \/ \E r \in Reqs : GvCreate(r)
    \/ \E r \in Reqs : GvTouch(r)
    \/ \E r \in Reqs : Allow(r)
    \/ SweepLock
    \/ SweepVisit
    \/ SweepUnlock

\* The registry under the write requests of one address.
Next ==
    \/ Tick(Instants)
    \/ \E r \in Reqs : Arrive(r, {"POST"}, {"/write"}, OneAddr, RegistryBodies, MaxBurst)
    \/ \E r \in Reqs : SaveJoke(r, StoreOutcomes)
    \/ Registry

Spec == Init /\ [][Next]_vars

\* The registry under the write requests of two addresses.
PairNext ==
    \/ Tick(CoarseInstants)
    \/ \E r \in Reqs : Arrive(r, {"POST"}, {"/write"}, Addrs, RegistryBodies, PairBurst)
    \/ \E r \in Reqs : SaveJoke(r, StoreOutcomes)
    \/ Registry

PairSpec == Init /\ [][PairNext]_vars

\* The router, the middleware and both handlers over the store, under the
\* requests of one address.
HttpBodies ==
    { BadJson,
      DecodedJoke(EmptyStr, Str("t", 10)),
      DecodedJoke(Str("J", 4), Str("t", 10)) }

HttpInstants == {0, SweepMinutes * Minute}

HttpNext ==
    \/ Tick(HttpInstants)
    \/ \E r \in Reqs : Arrive(r, Methods, Paths, OneAddr, HttpBodies, MaxBurst)
    \/ \E r \in Reqs : SaveJoke(r, StoreOutcomes)
    \/ \E r \in Reqs : GetJoke(r, StoreOutcomes)
    \/ Registry

HttpSpec == Init /\ [][HttpNext]_vars

\* The handlers under bodies of every kind: author and text empty, at the
\* limit and one byte past it, and a body that is no JSON.
SubmitBodies ==
    {BadJson} \cup
    { DecodedJoke(Str("J", a), Str("t", t)) :
        a \in {0, MaxAuthorLen, MaxAuthorLen + 1},
        t \in {0, MaxTextLen, MaxTextLen + 1} }

SubmitNext ==
    \/ Tick(HttpInstants)
    \/ \E r \in Reqs : Arrive(r, Methods, {"/write", "/random"}, OneAddr, SubmitBodies, PairBurst)
    \/ \E r \in Reqs : SaveJoke(r, StoreOutcomes)
    \/ \E r \in Reqs : GetJoke(r, StoreOutcomes)
    \/ Registry

SubmitSpec == Init /\ [][SubmitNext]_vars

\* The registry under the write requests of one address, with the
\* scheduling the Go runtime gives: a goroutine that can run does run (weak
\* fairness of every step of a request and of the sweep), and a goroutine
\* waiting in mu.Lock() gets mu when it is released again and again (strong
\* fairness of the two Lock steps; sync.Mutex hands the lock to a starving
\* waiter).
LiveNext ==
    \/ Tick(HttpInstants)
    \/ \E r \in Reqs : Arrive(r, {"POST"}, {"/write"}, OneAddr, RegistryBodies, MaxBurst)
    \/ \E r \in Reqs : SaveJoke(r, StoreOutcomes)
    \/ Registry

LiveSpec ==
    /\ Init
    /\ [][LiveNext]_vars
    /\ \A r \in Reqs :
         /\ SF_vars(GvLock(r))
         /\ WF_vars(GvCreate(r))
         /\ WF_vars(GvTouch(r))
         /\ WF_vars(Allow(r))
         /\ WF_vars(SaveJoke(r, StoreOutcomes))
    /\ SF_vars(SweepLock)
    /\ WF_vars(SweepVisit)
    /\ WF_vars(SweepUnlock)

\* Reads of a store that two different jokes are written to.
ReadBodies ==
    { DecodedJoke(Str("J", 4), Str("t", 10)),
      DecodedJoke(Str("K", 5), Str("u", 11)) }

ReadNext ==
    \/ Tick(HttpInstants)
    \/ \E r \in Reqs : Arrive(r, Methods, Paths, OneAddr, ReadBodies, PairBurst)
    \/ \E r \in Reqs : SaveJoke(r, StoreFailures)
    \/ \E r \in Reqs : GetJoke(r, StoreFailures)
    \/ Registry

ReadSpec == Init /\ [][ReadNext]_vars


\* ------------------------------------------------------------ properties
\* the Allow calls of address a at the current reading of the clock
AtNow(e) == e.t = now
NowCalls(a) == SelectSeq(hist[a], AtNow)

Min(x, y) == IF x < y THEN x ELSE y

\* C1: when every Allow call of an address at one instant comes from a
\* request that also ran getVisitor at that instant, and one of them found a
\* fresh bucket (no visitor, or a full bucket), the first three are forwarded
\* to the wrapped handler and every later one, the fourth included, is
\* answered 429.
C1_BurstOfFresh ==
    \A a \in Addrs :
      LET S == NowCalls(a)
      IN  ( /\ \A i \in 1..Len(S) : S[i].burst
            /\ \E i \in 1..Len(S) : S[i].fresh )
          => \A i \in 1..Len(S) :
               IF i <= 3
               THEN S[i].ok /\ S[i].forwarded /\ S[i].status = 0
               ELSE ~S[i].ok /\ ~S[i].forwarded /\ S[i].status = 429

C1_Witness ==
    \E a \in Addrs :
      LET S == NowCalls(a)
      IN  /\ Len(S) >= 4
          /\ \A i \in 1..Len(S) : S[i].burst
          /\ S[1].fresh
          /\ S[4].status = 429


\* C2, as claimed: a token is only ever taken from the limiter that the
\* visitors map holds for the request's address at the moment Allow runs
\* (no sweep comes between a request's getVisitor and its Allow).
C2_TokenFromRegisteredLimiter ==
    \A a \in Addrs : \A i \in 1..Len(hist[a]) :
      (hist[a][i].t = now /\ hist[a][i].ok) => hist[a][i].registered

\* C4, as claimed: after a rejection and a wait of at least one second without
\* calls, the next call is admitted and one made at the same instant after
\* it is rejected.
C4_ExactlyOneToken ==
    \A a \in Addrs : \A i \in 1..Len(hist[a]) :
      LET h == hist[a]
      IN  ( /\ i + 2 <= Len(h)
            /\ ~h[i].ok
            /\ h[i+1].t - h[i].t >= Second
            /\ h[i+2].t = h[i+1].t )
          => h[i+1].ok /\ ~h[i+2].ok

\* C4, amended: after a rejection and a wait w of at least one second without
\* calls, the next call is admitted; a call made at the same instant after
\* it on the same bucket is admitted exactly when the tokens the bucket
\* held at the rejection plus w seconds' refill, capped at 3, come to 2 or
\* more.
C4_RefillAfterRejection ==
    \A a \in Addrs : \A i \in 1..Len(hist[a]) :
      LET h == hist[a]
      IN  /\ ( /\ i + 1 <= Len(h)
               /\ ~h[i].ok
               /\ h[i+1].t - h[i].t >= Second )
             => h[i+1].ok
          /\ ( /\ i + 2 <= Len(h)
               /\ ~h[i].ok
               /\ h[i+1].t - h[i].t >= Second
               /\ h[i+2].t = h[i+1].t
               /\ h[i].lim = h[i+1].lim /\ h[i+1].lim = h[i+2].lim )
             => ( h[i+2].ok <=>
                    Min(h[i].left + (h[i+1].t - h[i].t) * Rate, Burst * TokenUnit)
                      >= 2 * TokenUnit )

\* a rejection that left half a token, one second's wait, then one call
\* admitted and the next rejected
C4_Witness ==
    \E a \in Addrs :
      LET h == hist[a]
      IN  /\ Len(h) >= 3
          /\ ~h[1].ok /\ h[1].left > 0
          /\ h[2].t - h[1].t = Second
          /\ h[1].lim = h[2].lim /\ h[2].lim = h[3].lim
          /\ h[2].ok /\ h[3].t = h[2].t /\ ~h[3].ok

\* C5: no bucket ever holds more than 3 tokens, stored or counted at the
\* current time, and of the requests of one address that pass through the
\* middleware at one instant at most 3 are admitted, however long the
\* bucket was left alone before.
C5_AtMostBurst ==
    /\ \A i \in 1..Len(limiters) :
         /\ limiters[i].tokens <= Burst * TokenUnit
         /\ AdvanceTokens(limiters[i], now) <= Burst * TokenUnit
    /\ \A a \in Addrs :
         LET S == NowCalls(a)
         IN  Cardinality({i \in 1..Len(S) : S[i].burst /\ S[i].ok}) <= 3

\* an emptied bucket, left alone for a minute or more, admits 3 and
\* rejects the 4th
C5_Witness ==
    \E a \in Addrs :
      LET S == NowCalls(a)
      IN  /\ Len(S) >= 4
          /\ \A i \in 1..Len(S) : S[i].burst
          /\ S[1].refilled
          /\ S[1].ok /\ S[2].ok /\ S[3].ok /\ ~S[4].ok

\* C7: each key has exactly one limiter that was not evicted while it is in
\* the map, the one the map holds, and none while it is not; requests of one
\* address that ran getVisitor at the same instant hold the same limiter,
\* their Allow calls went to one limiter, and at most 3 of them are admitted.
LiveLimiters(k) ==
    {i \in 1..Len(limiters) : limiters[i].owner = k /\ ~limiters[i].evicted}

C7_OneLimiterPerKey ==
    /\ \A a \in Addrs :
         LiveLimiters(Key(a)) =
           IF Key(a) \in DOMAIN visitors THEN {visitors[Key(a)].limiter} ELSE {}
    /\ \A r, q \in Reqs :
         ( /\ req[r].pc = "allow" /\ req[q].pc = "allow"
           /\ req[r].addr = req[q].addr
           /\ req[r].burst /\ req[q].burst )
         => req[r].lim = req[q].lim
    /\ \A a \in Addrs :
         LET S == NowCalls(a)
         IN  /\ \A i, j \in 1..Len(S) : (S[i].burst /\ S[j].burst) => S[i].lim = S[j].lim
             /\ \A r \in Reqs : \A i \in 1..Len(S) :
                  (req[r].pc = "allow" /\ req[r].addr = a /\ req[r].burst /\ S[i].burst)
                  => req[r].lim = S[i].lim
             /\ Cardinality({i \in 1..Len(S) : S[i].burst /\ S[i].ok}) <= 3

\* two first requests of one address inside getVisitor together: one is
\* creating the visitor, the other waits for mu
C7_Witness ==
    \E r, q \in Reqs :
      /\ r # q
      /\ req[r].addr = req[q].addr
      /\ req[r].pc = "allow" /\ req[q].pc = "allow"
      /\ req[r].burst /\ req[q].burst
      /\ req[r].lim = req[q].lim
      /\ Len(limiters) = 1
      /\ now = 0 /\ arrived = 2


\* C3: when a pass of cleanupVisitors has gone over the whole map, every
\* entry the pass found whose lastSeen was more than 3 minutes before the
\* pass is gone from the map, and every entry whose lastSeen was within 3
\* minutes of the pass is still there, as it was.
PassDone == sweep.pc = "range" /\ sweep.todo = {}

C3_SweepPass ==
    PassDone =>
      \A ip \in DOMAIN sweep.before :
        IF sweep.start - sweep.before[ip].lastSeen > StaleMinutes * Minute
        THEN ip \notin DOMAIN visitors
        ELSE ip \in DOMAIN visitors /\ visitors[ip] = sweep.before[ip]

\* a pass that found one entry older than 3 minutes and one younger
C3_Witness ==
    /\ PassDone
    /\ \E ip, jp \in DOMAIN sweep.before :
         /\ sweep.start - sweep.before[ip].lastSeen > StaleMinutes * Minute
         /\ sweep.start - sweep.before[jp].lastSeen <= StaleMinutes * Minute
         /\ ip \notin DOMAIN visitors
         /\ jp \in DOMAIN visitors

\* C6: a step of a request of address b leaves alone all that decides the
\* requests of another address a: a's entry in the map, a's limiters and
\* the decisions a has had; and the limiter an Allow decides on is one of
\* the request's own address.
BucketView(a) ==
    [ entry   |-> IF Key(a) \in DOMAIN visitors THEN <<visitors[Key(a)]>> ELSE <<>>,
      buckets |-> {<<i, limiters[i]>> : i \in
                     {j \in 1..Len(limiters) : limiters[j].owner = Key(a)}},
      calls   |-> hist[a] ]

StepOf(r) ==
    \/ GvLock(r)
    \/ GvCreate(r)
    \/ GvTouch(r)
    \/ Allow(r)
    \/ SaveJoke(r, StoreOutcomes)

C6_BucketsIndependent ==
    [][ \A r \in Reqs :
          /\ Allow(r) => limiters[req[r].lim].owner = Key(req[r].addr)
          /\ StepOf(r) =>
               \A a \in Addrs :
                 (a # req[r].addr) => BucketView(a)' = BucketView(a) ]_vars

\* one address is refused at an instant at which the other is admitted
C6_Witness ==
    \E a, b \in Addrs :
      /\ a # b
      /\ \E i \in 1..Len(hist[a]) : hist[a][i].t = now /\ ~hist[a][i].ok
      /\ \E i \in 1..Len(hist[b]) : hist[b][i].t = now /\ hist[b][i].ok


IsWrite(q) == q.method = "POST" /\ q.path = "/write"
IsRead(q) == q.method = "GET" /\ q.path = "/random"

\* C8: a write request answered 429 has an empty body, took no token and
\* never reached saveJoke (no decoding, no validation, no call of the
\* store); saveJoke runs for a write request only after the request has
\* taken a token; and a write request is answered by one of the two.
C8_LimiterBeforeSave ==
    \A r \in Reqs :
      LET q == req[r]
      IN  IsWrite(q) =>
            /\ (q.status = 429) =>
                 /\ q.pc = "done"
                 /\ q.msg = "" /\ q.joke = NoJoke
                 /\ ~q.ranSave /\ q.storeCalls = 0
                 /\ ~q.tokenTaken
            /\ (q.pc = "saveJoke" \/ q.ranSave) => q.tokenTaken
            /\ (q.pc = "done") => (q.status = 429 \/ q.ranSave)

\* one write refused with 429 beside one that went through saveJoke
C8_Witness ==
    \E r, p \in Reqs :
      /\ IsWrite(req[r]) /\ req[r].pc = "done" /\ req[r].status = 429
      /\ IsWrite(req[p]) /\ req[p].pc = "done" /\ req[p].ranSave
      /\ req[p].status = 201

\* C9: a GET /random is never in the middleware, never holds a limiter,
\* never takes a token and is never answered 429; and the steps that
\* serve it leave the map, the limiters, mu and the decisions taken alone.
GetStep(r) ==
    /\ req'[r] # req[r]
    /\ \/ req[r].pc = "getJoke"
       \/ req'[r].pc = "getJoke"

C9_ReadsBypassLimiter ==
    [][ \A r \in Reqs :
          /\ IsRead(req'[r]) =>
               /\ req'[r].pc \in {"getJoke", "done"}
               /\ req'[r].status # 429
               /\ req'[r].lim = 0
               /\ ~req'[r].tokenTaken
          /\ GetStep(r) => UNCHANGED <<visitors, limiters, mu, hist>> ]_vars

\* a GET /random answered 200 while the bucket of its address is empty
C9_Witness ==
    \E r \in Reqs :
      /\ IsRead(req[r]) /\ req[r].pc = "done" /\ req[r].status = 200
      /\ Key(req[r].addr) \in DOMAIN visitors
      /\ AdvanceTokens(limiters[visitors[Key(req[r].addr)].limiter], now) < TokenUnit

\* C10, as claimed: the Joke answered with 201 is a row of the store, with
\* the id and the entry_date the store gave it.
C10_CreatedJokeReturned ==
    \A r \in Reqs :
      (req[r].status = 201) =>
        \E i \in 1..Len(jokes) :
          /\ req[r].joke = jokes[i]
          /\ req[r].joke.id # 0
          /\ req[r].joke.date # ZeroTime


\* C11: saveJoke answers a decoded (author, text) pair with 400 and the
\* message of the first check it fails, in the order empty author, author
\* over 255 bytes, empty text, text over 2000 bytes, and with nothing
\* else; a pair that fails none, an author of 255 bytes and a text of 2000
\* bytes among them, goes on to the insert.
FirstViolation(author, text) ==
    CASE StrLen(author) = 0   -> "Author cannot be empty."
      [] StrLen(author) > 255 -> "Author exceeds maximum length of 255 characters."
      [] StrLen(text) = 0     -> "Joke text cannot be empty."
      [] StrLen(text) > 2000  -> "Joke text exceeds maximum length of 2000 characters."
      [] OTHER                -> ""

C11_FirstViolationOnly ==
    \A r \in Reqs :
      LET q == req[r]
          m == FirstViolation(q.body.author, q.body.text)
      IN  (q.ranSave /\ q.body # BadJson) =>
            IF m # ""
            THEN q.status = 400 /\ q.msg = m /\ q.storeCalls = 0 /\ q.joke = NoJoke
            ELSE q.status \in {201, 500} /\ q.storeCalls = 1

\* an empty author with a text past the limit is answered for the author,
\* beside a pair at both limits that was inserted
C11_Witness ==
    \E r, p \in Reqs :
      /\ req[r].ranSave /\ req[r].body = DecodedJoke(Str("J", 0), Str("t", 2001))
      /\ req[r].msg = "Author cannot be empty."
      /\ req[p].ranSave /\ req[p].body = DecodedJoke(Str("J", 255), Str("t", 2000))
      /\ req[p].status = 201


\* C12: a step of saveJoke that answers 400, for a body that is no JSON
\* or for a failed check, has made no call of the store and leaves the
\* stored jokes as they were.
C12_BadRequestLeavesStore ==
    [][ \A r \in Reqs :
          ( /\ req[r].pc = "saveJoke"
            /\ req'[r].pc = "done"
            /\ req'[r].status = 400 )
          => /\ jokes' = jokes
             /\ req'[r].storeCalls = 0 ]_vars

\* a body that is no JSON and a failed check, both answered 400, beside a
\* stored joke
C12_Witness ==
    /\ Len(jokes) > 0
    /\ \E r, p \in Reqs :
         /\ req[r].ranSave /\ req[r].status = 400 /\ req[r].body = BadJson
         /\ req[p].ranSave /\ req[p].status = 400 /\ req[p].body # BadJson


\* C13: getJoke leaves the store as it is; of an empty store it answers
\* 404 with "No jokes found in the database." (or 500 when the store
\* fails), and of a store with rows 200 with a Joke whose id, author and
\* text are those of one and the same row.
C13_RandomJoke ==
    [][ \A r \in Reqs :
          (req[r].pc = "getJoke" /\ req'[r].pc = "done") =>
            LET a == req'[r]
            IN  /\ jokes' = jokes
                /\ a.status \in {200, 404, 500}
                /\ (a.status = 404) =>
                     /\ Len(jokes) = 0
                     /\ a.msg = "No jokes found in the database."
                     /\ a.joke = NoJoke
                /\ (a.status = 200) =>
                     /\ a.msg = ""
                     /\ \E i \in 1..Len(jokes) :
                          /\ a.joke.id = jokes[i].id
                          /\ a.joke.author = jokes[i].author
                          /\ a.joke.text = jokes[i].text
                /\ (Len(jokes) = 0) => a.status # 200
                /\ (Len(jokes) > 0) => a.status # 404 ]_vars

\* the second of two different stored jokes is read, and an empty store
\* was read before
C13_Witness ==
    /\ Len(jokes) = 2
    /\ jokes[1].author # jokes[2].author
    /\ \E r, p \in Reqs :
         /\ IsRead(req[r]) /\ req[r].status = 200 /\ req[r].joke = jokes[2]
         /\ IsRead(req[p]) /\ req[p].status = 404


\* C14: a request whose call of the store fails, in getJoke and in
\* saveJoke, ends with 500 and "An internal server error occurred.",
\* whatever the failure was; the store was called once for it, the stored
\* jokes are as before and no Joke is in the response.  500 is answered
\* for nothing else.
C14_StoreFailure ==
    [][ \A r \in Reqs :
          (req[r].pc \in {"getJoke", "saveJoke"} /\ req'[r].pc = "done") =>
            LET a == req'[r]
            IN  /\ (a.storeErr # "") =>
                     /\ a.status = 500
                     /\ a.msg = "An internal server error occurred."
                     /\ a.msg # a.storeErr
                     /\ a.joke = NoJoke
                     /\ a.storeCalls = 1
                     /\ jokes' = jokes
                /\ (a.status = 500) => a.storeErr # "" ]_vars

\* a read and a write that failed in different ways, answered alike
C14_Witness ==
    \E r, p \in Reqs :
      /\ IsRead(req[r]) /\ req[r].status = 500
      /\ IsWrite(req[p]) /\ req[p].status = 500
      /\ req[r].storeErr # req[p].storeErr
      /\ req[r].msg = req[p].msg


\* C15: the keys of the visitors map are the RemoteAddr strings as they
\* are, port included: a request holds a limiter made for its own address
\* string, requests of one address string that ran getVisitor at the same
\* instant hold the same limiter, and two addresses that differ in the
\* port only have two entries with two limiters, each a bucket of its own
\* that admits at most 3 at one instant.
OkNow(a) == {i \in 1..Len(hist[a]) : hist[a][i].t = now /\ hist[a][i].ok /\ hist[a][i].burst}

C16_AdmittedWithinBound ==
    \A a \in Addrs :
      Cardinality({i \in 1..Len(hist[a]) : hist[a][i].t = now /\ hist[a][i].ok}) <= 3


\* C17, as claimed: each Allow call decides as it would on the bucket of a
\* map that is never swept.
C17_EvictionUnobservable ==
    \A a \in Addrs : \A i \in 1..Len(hist[a]) :
      hist[a][i].ok = hist[a][i].unswept


\* C18: getVisitor leaves the entry of the request's address with lastSeen
\* = now, for a request that is then rejected as for one that is admitted,
\* and Allow does not touch the map; an entry leaves the map only in a
\* sweep pass and only when its lastSeen, the time of the address's last
\* request, is more than 3 minutes old.
C18_LastSeenOnEveryRequest ==
    [][ /\ \A r \in Reqs :
             /\ (GvCreate(r) \/ GvTouch(r)) =>
                  /\ Key(req[r].addr) \in DOMAIN visitors'
                  /\ visitors'[Key(req[r].addr)].lastSeen = now
             /\ Allow(r) =>
                  /\ visitors' = visitors
                  /\ (req[r].burst /\ Key(req[r].addr) \in DOMAIN visitors) =>
                       visitors[Key(req[r].addr)].lastSeen = now
        /\ \A ip \in DOMAIN visitors :
             (ip \notin DOMAIN visitors') =>
               /\ sweep.pc = "range"
               /\ now - visitors[ip].lastSeen > StaleMinutes * Minute ]_vars

\* a pass has gone over the map one minute after a request of the address
\* was rejected, and the entry, with lastSeen the time of that request,
\* is still there
C18_Witness ==
    /\ PassDone
    /\ \E a \in Addrs :
         /\ Len(hist[a]) = 1 /\ ~hist[a][1].ok
         /\ Key(a) \in DOMAIN sweep.before
         /\ Key(a) \in DOMAIN visitors
         /\ visitors[Key(a)].lastSeen = hist[a][1].t
         /\ visitors[Key(a)].lastSeen > 0
         /\ now > hist[a][1].t


\* C19: an Allow call that is refused leaves its limiter exactly as it
\* was; and after a refused call the next call on the same bucket is
\* admitted exactly when the tokens counted at the refused call and the
\* refill since then come to one token, so the refill goes on through the
\* refused calls.
C19_RejectionConsumesNothing ==
    [][ \A r \in Reqs :
          Allow(r) =>
            LET a == req[r].addr
                h == hist'[a]
                n == Len(h)
            IN  /\ (~h[n].ok) =>
                     /\ limiters' = limiters
                     /\ req'[r].status = 429
                /\ (n >= 2 /\ ~h[n-1].ok /\ h[n-1].lim = h[n].lim) =>
                     ( h[n].ok <=>
                         h[n-1].left + (h[n].t - h[n-1].t) * Rate >= TokenUnit ) ]_vars

\* half a second after the bucket was emptied a call was refused, and half
\* a second after that the next one is admitted
C19_Witness ==
    \E a \in Addrs :
      LET h == hist[a]
      IN  /\ Len(h) = 2
          /\ ~h[1].ok /\ h[1].left > 0 /\ h[1].left < TokenUnit
          /\ h[2].ok /\ h[2].lim = h[1].lim
          /\ h[2].t - h[1].t < Second
          /\ h[2].left = 0


\* C20: mu is held by the one goroutine that is inside getVisitor or inside
\* a sweep pass and by no other, and is free when none is; under fair
\* scheduling every request that has entered the middleware gets its
\* decision from Allow, and every sweep pass that has begun ends with mu
\* released.
Inside == {r \in Reqs : req[r].pc \in {"touch", "create"}}
Sweeping == sweep.pc = "range"
Decided(r) == req[r].pc \in {"saveJoke", "done", "idle"}

MutualExclusion ==
    /\ Cardinality(Inside) + (IF Sweeping THEN 1 ELSE 0) <= 1
    /\ \A r \in Reqs : (r \in Inside) <=> (mu = r)
    /\ Sweeping <=> (mu = SweepHolder)
    /\ (mu = 0) <=> (Inside = {} /\ ~Sweeping)

C20_GuardReleased ==
    /\ []MutualExclusion
    /\ \A r \in Reqs : (req[r].pc = "getVisitor") ~> Decided(r)
    /\ Sweeping ~> (~Sweeping /\ mu # SweepHolder)

\* two requests wait in mu.Lock() while a sweep pass holds mu
C20_Witness ==
    /\ Sweeping /\ mu = SweepHolder
    /\ sweep.todo # {}
    /\ \A r \in Reqs : req[r].pc = "getVisitor"

====
